---------------------------- MODULE Spec2Model ----------------------------
(***************************************************************************)
(* The fbdev backend of weston (src/compositor-fbdev.c): one frame buffer  *)
(* output, its device mapping and surfaces, the VT enter/leave handler and *)
(* the construction and destruction of the backend.                        *)
(*                                                                         *)
(* Every C function is an operator from a world record (all of the         *)
(* program's state, the kernel's view of mappings and descriptors          *)
(* included) to the world it leaves; the results of the system calls and   *)
(* allocations it makes are its inputs.  An action applies one whole       *)
(* handler to the current world.                                           *)
(***************************************************************************)
EXTENDS Integers, Sequences, FiniteSets, TLC

VARIABLES
    phase,        \* "none" before backend_init, "running", "failed", "crashed", "destroyed"
    compositor,   \* struct fbdev_compositor (with the weston_compositor fields used)
    outputs,      \* the live struct fbdev_output objects, by address
    device,       \* what the frame buffer device reports: [var, fix]
    mappings,     \* the live mmap()ed regions of the device: records [addr, len]
    fds,          \* the open file descriptors
    images,       \* the live pixman images
    buffers,      \* the live malloc()ed shadow buffers
    calls,        \* the calls made by the handler that has just returned, in order
    vt,           \* the last VT event handled: "ACTIVE" (initially, after Enter), "SUSPENDED" (after Leave)
    prev_vt,      \* vt as it was when the last VT event arrived
    before_leave, \* the activity state and the outputs as they were when the last VT Leave arrived
    nsteps,       \* the number of VT events handled since construction
    timers,       \* the timer sources of the display's event loop: by address, [data, armed, ms_delay]
    arg,          \* the argument of the function under study (function studies only)
    res           \* what the function under study returned for arg

vars == <<phase, compositor, outputs, device, mappings, fds, images, buffers,
          calls, vt, prev_vt, before_leave, nsteps, timers, arg, res>>

-----------------------------------------------------------------------------
(* Bounds *)

MaxSteps == 3

-----------------------------------------------------------------------------
(* Constants of the program *)

NULL == 0

MAP_FAILED == -1

FB_TYPE_PACKED_PIXELS == 0

FB_VISUAL_TRUECOLOR == 2

PIXMAN_TYPE_OTHER == 0

PIXMAN_TYPE_ARGB == 2

PIXMAN_TYPE_RGBA == 9

RefreshCap == 200000

RefreshDefault == 60000

WL_OUTPUT_TRANSFORM_NORMAL == 0

WL_OUTPUT_TRANSFORM_90 == 1

WL_OUTPUT_TRANSFORM_180 == 2

WL_OUTPUT_TRANSFORM_270 == 3

DevicePath == "/dev/fb0"

GarbagePath == "<freed>"

WESTON_COMPOSITOR_ACTIVE == "ACTIVE"

WESTON_COMPOSITOR_OFFSCREEN == "OFFSCREEN"

WESTON_COMPOSITOR_SLEEPING == "SLEEPING"

-----------------------------------------------------------------------------
(* The device *)

Channel(offset, length, msb_right) ==
    [offset |-> offset, length |-> length, msb_right |-> msb_right]

\* struct fb_var_screeninfo of a 32 bpp x8r8g8b8 device with no timings reported
VarInfo(xres, yres, grayscale) ==
    [xres |-> xres, yres |-> yres, width |-> 520, height |-> 290,
     bits_per_pixel |-> 32, grayscale |-> grayscale,
     red |-> Channel(16, 8, 0), green |-> Channel(8, 8, 0),
     blue |-> Channel(0, 8, 0), transp |-> Channel(24, 0, 0),
     upper_margin |-> 0, lower_margin |-> 0,
     left_margin |-> 0, right_margin |-> 0, pixclock |-> 0]

\* struct fb_fix_screeninfo
FixInfo(smem_len, line_length, id) ==
    [smem_len |-> smem_len, line_length |-> line_length, id |-> id,
     type |-> FB_TYPE_PACKED_PIXELS, visual |-> FB_VISUAL_TRUECOLOR]

Resolutions == {<<1920, 1080>>, <<1280, 1024>>}

SmemLens == {8294400, 16777216}

\* what the device can report when it is queried: a true-colour mode of either
\* resolution and buffer length, or a grayscale mode
DevStates ==
    { [var |-> VarInfo(r[1], r[2], 0), fix |-> FixInfo(l, r[1] * 4, "fb")] :
        r \in Resolutions, l \in SmemLens }
    \cup { [var |-> VarInfo(1920, 1080, 1),
            fix |-> FixInfo(8294400, 1920 * 4, "fb")] }

-----------------------------------------------------------------------------
(* Pixel format and refresh rate *)

PIXMAN_FORMAT(bpp, type, a, r, g, b) ==
    bpp * 16777216 + type * 65536 + a * 4096 + r * 256 + g * 16 + b

calculate_pixman_format(vinfo, finfo) ==
    IF finfo.type # FB_TYPE_PACKED_PIXELS THEN 0
    ELSE IF finfo.visual # FB_VISUAL_TRUECOLOR \/ vinfo.grayscale # 0 THEN 0
    ELSE IF vinfo.red.msb_right # 0 \/ vinfo.green.msb_right # 0
            \/ vinfo.blue.msb_right # 0 THEN 0
    ELSE LET type ==
               IF /\ (vinfo.transp.offset >= vinfo.red.offset
                      \/ vinfo.transp.length = 0)
                  /\ vinfo.red.offset >= vinfo.green.offset
                  /\ vinfo.green.offset >= vinfo.blue.offset
               THEN PIXMAN_TYPE_ARGB
               ELSE IF /\ vinfo.red.offset >= vinfo.green.offset
                       /\ vinfo.green.offset >= vinfo.blue.offset
                       /\ vinfo.blue.offset >= vinfo.transp.offset
               THEN PIXMAN_TYPE_RGBA
               ELSE PIXMAN_TYPE_OTHER
         IN IF type = PIXMAN_TYPE_OTHER THEN 0
            ELSE PIXMAN_FORMAT(vinfo.bits_per_pixel, type,
                               vinfo.transp.length, vinfo.red.length,
                               vinfo.green.length, vinfo.blue.length)

\* Unsigned integers wider than the checker's own are kept as base-256
\* digits, least significant first: 4 digits an unsigned int (__u32), 8 a
\* uint64_t.  The k digits of n (n below 2^31):
Digits(n, k) ==
    SubSeq(<<n % 256, (n \div 256) % 256, (n \div 65536) % 256,
             n \div 16777216, 0, 0, 0, 0, 0, 0, 0, 0>>, 1, k)

\* the digits of a value widened (zero-extended) or truncated to k digits
Widen(a, k) == SubSeq(a \o <<0, 0, 0, 0, 0, 0, 0, 0>>, 1, k)

\* carries propagated through the columns s from column i on; the carry out
\* of the last column is lost, as in unsigned arithmetic of that width
RECURSIVE Carry(_, _, _)
Carry(s, i, c) ==
    IF i > Len(s) THEN <<>>
    ELSE <<(s[i] + c) % 256>> \o Carry(s, i + 1, (s[i] + c) \div 256)

\* a + b + c in the width of a
Plus(a, b, c) == Carry([i \in 1..Len(a) |-> a[i] + b[i] + c[i]], 1, 0)

\* column k of the long multiplication of a by b
RECURSIVE Column(_, _, _, _)
Column(a, b, k, i) ==
    IF i > k THEN 0 ELSE a[i] * b[k + 1 - i] + Column(a, b, k, i + 1)

\* a * b in the width of a (b of the same width); nothing to multiply out
\* when b is zero
Times(a, b) ==
    IF \A i \in DOMAIN b : b[i] = 0 THEN b
    ELSE Carry([k \in 1..Len(a) |-> Column(a, b, k, 1)], 1, 0)

\* a <= b, compared from digit i down
RECURSIVE AtMost(_, _, _)
AtMost(a, b, i) ==
    IF i = 0 THEN TRUE
    ELSE IF a[i] # b[i] THEN a[i] < b[i]
    ELSE AtMost(a, b, i - 1)

\* 1000000000000000LLU = 0x38D7EA4C68000, in 12 digits
TenTo15 == <<0, 128, 198, 164, 126, 141, 3, 0, 0, 0, 0, 0>>

\* quot of calculate_refresh_rate: the two sums are unsigned int sums, the
\* products uint64_t products
RefreshQuot(vinfo) ==
    Times(Times(Widen(Plus(Digits(vinfo.upper_margin, 4),
                           Digits(vinfo.lower_margin, 4),
                           Digits(vinfo.yres, 4)), 8),
                Widen(Plus(Digits(vinfo.left_margin, 4),
                           Digits(vinfo.right_margin, 4),
                           Digits(vinfo.xres, 4)), 8)),
          Digits(vinfo.pixclock, 8))

\* refresh_rate of calculate_refresh_rate: 1000000000000000LLU / quot by
\* binary long division from bit b down (q becomes the largest number below
\* 2^(b+1) with q * quot <= 10^15, the quotient itself when it is below
\* 2^(b+1)), cut at the cap
RECURSIVE refresh_rate(_, _, _)
refresh_rate(quot, b, q) ==
    IF q > RefreshCap THEN RefreshCap
    ELSE IF b < 0 THEN q
    ELSE refresh_rate(quot, b - 1,
                      IF AtMost(Times(Widen(quot, 12), Digits(q + 2^b, 12)),
                                TenTo15, 12)
                      THEN q + 2^b ELSE q)

calculate_refresh_rate(vinfo) ==
    IF RefreshQuot(vinfo) # Digits(0, 8)
    THEN refresh_rate(RefreshQuot(vinfo), 17, 0)
    ELSE RefreshDefault

-----------------------------------------------------------------------------
(* The world the C functions act on.  A function's results (its return     *)
(* value, the descriptor and the screen info it hands back) are registers  *)
(* of the world it leaves.                                                 *)

\* struct fbdev_screeninfo after calloc()
NoInfo ==
    [x_resolution |-> 0, y_resolution |-> 0, width_mm |-> 0, height_mm |-> 0,
     bits_per_pixel |-> 0, buffer_length |-> 0, line_length |-> 0, id |-> "",
     pixel_format |-> 0, refresh_rate |-> 0]

\* the addresses and descriptors the state mentions
StateIds ==
    UNION { (DOMAIN outputs),
            UNION { {outputs[o].fb, outputs[o].hw_surface,
                     outputs[o].shadow_surface, outputs[o].shadow_buf} :
                    o \in DOMAIN outputs },
            { m.addr : m \in mappings }, fds,
            { i.id : i \in images }, { i.bits : i \in images }, buffers,
            (DOMAIN timers),
            UNION { {before_leave.outputs[o].shadow_surface,
                     before_leave.outputs[o].shadow_buf, o} :
                    o \in DOMAIN before_leave.outputs } }

World ==
    [phase |-> phase, compositor |-> compositor, outputs |-> outputs,
     device |-> device, mappings |-> mappings, fds |-> fds, images |-> images,
     buffers |-> buffers, timers |-> timers, reserved |-> StateIds,
     calls |-> <<>>,
     ret |-> 0, fd |-> -1, info |-> NoInfo]

\* calloc, malloc, mmap, open and pixman hand out an address or descriptor
\* that nothing in the state mentions and that this handler has not seen
RECURSIVE FirstFree(_, _)
FirstFree(reserved, i) ==
    IF i \in reserved THEN FirstFree(reserved, i + 1) ELSE i

Fresh(w) == FirstFree(w.reserved, 1)

\* a call the handler makes, with up to two integer arguments or results
Log(w, name, a, b) == [w EXCEPT !.calls = Append(@, <<name, a, b>>)]

Ret(w, r) == [w EXCEPT !.ret = r]

\* struct fbdev_output after calloc() and the two assignments that follow it
NewOutput(dev_path) ==
    [device |-> dev_path, fb_info |-> NoInfo, fb |-> NULL,
     hw_surface |-> NULL, shadow_surface |-> NULL, shadow_buf |-> NULL,
     mode |-> [width |-> 0, height |-> 0, refresh |-> 0],
     renderer_state |-> FALSE, repaint_needed |-> FALSE,
     transform |-> 0, finish_frame_timer |-> NULL]

calloc_output(w, o, dev_path) ==
    [w EXCEPT !.reserved = @ \cup {o},
              !.outputs = @ @@ (o :> NewOutput(dev_path))]

free_output(w, o) ==
    [w EXCEPT !.outputs = [x \in (DOMAIN @) \ {o} |-> @[x]]]

\* the pixman image at an address
Image(imgs, id) == CHOOSE i \in imgs : i.id = id

pixman_image_create_bits(w, id, o, field, width, height, bits) ==
    [w EXCEPT !.reserved = @ \cup {id},
              !.images = @ \cup {[id |-> id, width |-> width,
                                  height |-> height, bits |-> bits]},
              !.outputs[o][field] = id]

pixman_image_unref(w, id) ==
    [w EXCEPT !.images = {i \in @ : i.id # id}]

close(w, fd) == Log([w EXCEPT !.fds = @ \ {fd}], "close", fd, 0)

-----------------------------------------------------------------------------
(* Inputs: the results of the allocations and system calls a handler makes *)

AllOk ==
    [calloc_ok |-> TRUE, open_ok |-> TRUE, ioctl_ok |-> TRUE, mmap_ok |-> TRUE,
     hw_ok |-> TRUE, buf_ok |-> TRUE, shadow_ok |-> TRUE, rend_ok |-> TRUE]

\* fbdev_output_create: the calls up to the first failure are made; the shadow
\* buffer and the shadow surface are both allocated before either is tested
CreateInputs ==
    {AllOk}
    \cup { [AllOk EXCEPT ![f] = FALSE] :
             f \in {"calloc_ok", "open_ok", "ioctl_ok", "mmap_ok", "hw_ok",
                    "buf_ok", "shadow_ok", "rend_ok"} }
    \cup { [AllOk EXCEPT !.buf_ok = FALSE, !.shadow_ok = FALSE] }

EnterOk ==
    [open_ok |-> TRUE, ioctl_ok |-> TRUE, mmap_ok |-> TRUE, hw_ok |-> TRUE,
     set_ok |-> TRUE, stale_device |-> "intact", stale_next |-> "end",
     create |-> AllOk]

\* fbdev_output_reenable, and the two reads vt_func and fbdev_output_reenable
\* make of an output that fbdev_output_destroy has freed.  An input that is
\* not consumed has its default: a failed open or map leaves the mode-drift
\* path out, and no device is opened under a garbage path
EnterInputs ==
    { [EnterOk EXCEPT ![f] = FALSE] :
        f \in {"open_ok", "ioctl_ok", "mmap_ok", "hw_ok"} }
    \cup { [EnterOk EXCEPT !.set_ok = s, !.stale_next = n, !.create = c] :
             s \in BOOLEAN, n \in {"end", "crash"}, c \in CreateInputs }
    \cup { [EnterOk EXCEPT !.set_ok = s, !.stale_next = n, !.create = c,
                           !.stale_device = "garbage"] :
             s \in BOOLEAN, n \in {"end", "crash"},
             c \in {AllOk, [AllOk EXCEPT !.calloc_ok = FALSE]} }

BackendOk ==
    [calloc_ok |-> TRUE, core_ok |-> TRUE, udev_ok |-> TRUE, tty_ok |-> TRUE,
     renderer_ok |-> TRUE, create |-> AllOk]

\* fbdev_compositor_create
BackendInputs ==
    { [BackendOk EXCEPT ![f] = FALSE] :
        f \in {"calloc_ok", "core_ok", "udev_ok", "tty_ok", "renderer_ok"} }
    \cup { [BackendOk EXCEPT !.create = c] : c \in CreateInputs }

-----------------------------------------------------------------------------
(* Device Mapper *)

\* [ret, info]
fbdev_query_screen_info(dev, ioctl_ok) ==
    IF ~ioctl_ok THEN [ret |-> -1, info |-> NoInfo]
    ELSE [ret |-> IF calculate_pixman_format(dev.var, dev.fix) = 0
                  THEN -1 ELSE 1,
          info |-> [x_resolution |-> dev.var.xres,
                    y_resolution |-> dev.var.yres,
                    width_mm |-> dev.var.width,
                    height_mm |-> dev.var.height,
                    bits_per_pixel |-> dev.var.bits_per_pixel,
                    buffer_length |-> dev.fix.smem_len,
                    line_length |-> dev.fix.line_length,
                    id |-> dev.fix.id,
                    pixel_format |-> calculate_pixman_format(dev.var, dev.fix),
                    refresh_rate |-> calculate_refresh_rate(dev.var)]]

\* [ret, device]: the mode-set of the cached mode with an x8r8g8b8 layout; the
\* driver that accepts it reports the stride of the mode it was given
fbdev_set_screen_info(dev, info, set_ok) ==
    IF ~set_ok THEN [ret |-> -1, device |-> dev]
    ELSE [ret |-> 1,
          device |->
            [dev EXCEPT !.var.xres = info.x_resolution,
                        !.var.yres = info.y_resolution,
                        !.var.width = info.width_mm,
                        !.var.height = info.height_mm,
                        !.var.bits_per_pixel = info.bits_per_pixel,
                        !.var.grayscale = 0,
                        !.var.transp = Channel(24, 0, 0),
                        !.var.red = Channel(16, 8, 0),
                        !.var.green = Channel(8, 8, 0),
                        !.var.blue = Channel(0, 8, 0),
                        !.fix.line_length =
                            info.x_resolution * (info.bits_per_pixel \div 8)]]

\* open() has succeeded with descriptor fd
open_device(w, fd) ==
    Log([w EXCEPT !.reserved = @ \cup {fd}, !.fds = @ \cup {fd}, !.fd = fd],
        "open", fd, 0)

\* the screen info q is handed back, or the descriptor closed
open_queried(w, q) ==
    IF q.ret < 0 THEN [close(Log(w, "query", -1, 0), w.fd) EXCEPT !.fd = -1]
    ELSE Log([w EXCEPT !.info = q.info],
             "query", q.info.x_resolution, q.info.y_resolution)

open_query(w, ioctl_ok) ==
    open_queried(w, fbdev_query_screen_info(w.device, ioctl_ok))

\* leaves the descriptor in w.fd (-1 on failure) and the screen info in w.info
fbdev_frame_buffer_open(w, fb_dev, open_ok, ioctl_ok) ==
    IF fb_dev # DevicePath \/ ~open_ok
    THEN [Log(w, "open", -1, 0) EXCEPT !.fd = -1]
    ELSE open_query(open_device(w, Fresh(w)), ioctl_ok)

fbdev_frame_buffer_destroy(w, o) ==
    Log([w EXCEPT !.mappings = {m \in @ : m.addr # w.outputs[o].fb},
                  !.outputs[o].fb = NULL],
        "munmap", w.outputs[o].fb, w.outputs[o].fb_info.buffer_length)

\* fbdev_frame_buffer_map, were a failed mmap() to leave the descriptor open
map_failed_unclosed(w, o, fd) ==
    Ret(Log([w EXCEPT !.outputs[o].fb = MAP_FAILED], "mmap", MAP_FAILED, 0), -1)

\* mmap() has failed
map_failed(w, o, fd) ==
    Ret(close(Log([w EXCEPT !.outputs[o].fb = MAP_FAILED],
                  "mmap", MAP_FAILED, 0), fd), -1)

\* mmap() has succeeded at addr
map_mapped(w, o, addr) ==
    Log([w EXCEPT !.reserved = @ \cup {addr},
                  !.mappings = @ \cup
                      {[addr |-> addr,
                        len |-> w.outputs[o].fb_info.buffer_length]},
                  !.outputs[o].fb = addr],
        "mmap", addr, w.outputs[o].fb_info.buffer_length)

\* out_unmap: of fbdev_frame_buffer_map, retval being -1
map_out_unmap(w, o) ==
    IF w.outputs[o].fb # NULL THEN fbdev_frame_buffer_destroy(w, o) ELSE w

\* fbdev_frame_buffer_map from the creation of the hardware surface on
map_hw_surface(w, o, fd, hw_ok) ==
    IF hw_ok
    THEN Ret(close(Log(pixman_image_create_bits(w, Fresh(w), o, "hw_surface",
                           w.outputs[o].fb_info.x_resolution,
                           w.outputs[o].fb_info.y_resolution,
                           w.outputs[o].fb),
                       "create_bits", Fresh(w), 0), fd), 0)
    ELSE Ret(close(map_out_unmap(
                       Log([w EXCEPT !.outputs[o].hw_surface = NULL],
                           "create_bits", NULL, 0), o),
                   fd), -1)

\* leaves the return value in w.ret
fbdev_frame_buffer_map(w, o, fd, mmap_ok, hw_ok) ==
    IF ~mmap_ok THEN map_failed(w, o, fd)
    ELSE map_hw_surface(map_mapped(w, o, Fresh(w)), o, fd, hw_ok)

disable_hw_surface(w, o) ==
    IF w.outputs[o].hw_surface # NULL
    THEN [pixman_image_unref(w, w.outputs[o].hw_surface)
            EXCEPT !.outputs[o].hw_surface = NULL]
    ELSE w

\* fbdev_output_disable, were it to tear the shadow down with the mapping
disable_drop_shadow(w, o) ==
    fbdev_frame_buffer_destroy(
        [disable_hw_surface(Log(w, "disable", o, 0), o)
           EXCEPT !.images = {i \in @ : i.id # w.outputs[o].shadow_surface},
                  !.buffers = @ \ {w.outputs[o].shadow_buf},
                  !.outputs[o].shadow_surface = NULL,
                  !.outputs[o].shadow_buf = NULL], o)

fbdev_output_disable(w, o) ==
    fbdev_frame_buffer_destroy(disable_hw_surface(Log(w, "disable", o, 0), o), o)

-----------------------------------------------------------------------------
(* Output Surface Pipeline: construction and destruction of an output *)

create_failed(w) == Ret(Log(w, "create", NULL, -1), -1)

\* out_hw_surface: and out_free: of fbdev_output_create
create_out_hw_surface(w, o) ==
    free_output(
        fbdev_frame_buffer_destroy(
            [pixman_image_unref(w, w.outputs[o].hw_surface)
               EXCEPT !.buffers = @ \ {w.outputs[o].shadow_buf},
                      !.outputs[o].hw_surface = NULL], o), o)

\* out_shadow_surface: of fbdev_output_create
create_out_shadow_surface(w, o) ==
    create_out_hw_surface(
        [pixman_image_unref(w, w.outputs[o].shadow_surface)
           EXCEPT !.outputs[o].shadow_surface = NULL], o)

\* the one static mode, and weston_output_init with the normal transform
create_mode(w, o) ==
    [w EXCEPT !.outputs[o].mode =
                  [width |-> w.outputs[o].fb_info.x_resolution,
                   height |-> w.outputs[o].fb_info.y_resolution,
                   refresh |-> w.outputs[o].fb_info.refresh_rate],
              !.outputs[o].transform = WL_OUTPUT_TRANSFORM_NORMAL]

create_shadow_buf(w, o, buf, buf_ok) ==
    IF buf_ok
    THEN [w EXCEPT !.reserved = @ \cup {buf}, !.buffers = @ \cup {buf},
                   !.outputs[o].shadow_buf = buf]
    ELSE w

\* WL_OUTPUT_TRANSFORM_NORMAL: the shadow has the size of the mode
create_shadow_surface(w, o, shadow_ok) ==
    IF shadow_ok
    THEN pixman_image_create_bits(w, Fresh(w), o, "shadow_surface",
             w.outputs[o].fb_info.x_resolution,
             w.outputs[o].fb_info.y_resolution,
             w.outputs[o].shadow_buf)
    ELSE w

\* a timer source for finish_frame_handler with the output as its data; the
\* code does not test the result
wl_event_loop_add_timer(w, o, t) ==
    [w EXCEPT !.reserved = @ \cup {t},
              !.timers = @ @@ (t :> [data |-> o, armed |-> FALSE, ms_delay |-> 0]),
              !.outputs[o].finish_frame_timer = t]

\* fbdev_output_create from the test of the shadow allocations on
create_renderer(w, o, rend_ok) ==
    IF w.outputs[o].shadow_buf = NULL \/ w.outputs[o].shadow_surface = NULL
    THEN create_failed(create_out_hw_surface(w, o))
    ELSE IF ~rend_ok
    THEN create_failed(create_out_shadow_surface(w, o))
    ELSE Ret(Log([wl_event_loop_add_timer(
                      [w EXCEPT !.outputs[o].renderer_state = TRUE], o, Fresh(w))
                    EXCEPT !.compositor.output_list = Append(@, o)],
                 "create", o, 0), 0)

\* fbdev_output_create after fbdev_frame_buffer_map
create_mapped(w, o, in) ==
    IF w.ret < 0 THEN create_failed(free_output(w, o))
    ELSE create_renderer(
             create_shadow_surface(
                 create_shadow_buf(create_mode(w, o), o, Fresh(w), in.buf_ok),
                 o, in.shadow_ok),
             o, in.rend_ok)

\* fbdev_output_create after fbdev_frame_buffer_open
create_opened(w, o, in) ==
    IF w.fd < 0 THEN create_failed(free_output(w, o))
    ELSE create_mapped(
             fbdev_frame_buffer_map([w EXCEPT !.outputs[o].fb_info = w.info],
                                    o, w.fd, in.mmap_ok, in.hw_ok),
             o, in)

\* leaves the return value in w.ret
fbdev_output_create(w, dev_path, in) ==
    IF ~in.calloc_ok THEN create_failed(w)
    ELSE create_opened(
             fbdev_frame_buffer_open(calloc_output(w, Fresh(w), dev_path),
                                     dev_path, in.open_ok, in.ioctl_ok),
             Fresh(w), in)

\* the destruction of the shadow, were it to forget the unref and the free
destroy_shadow_kept(w, o) ==
    [w EXCEPT !.outputs[o].renderer_state = FALSE]

destroy_shadow(w, o) ==
    [w EXCEPT !.images = {i \in @ : i.id # w.outputs[o].shadow_surface},
              !.buffers = @ \ {w.outputs[o].shadow_buf},
              !.outputs[o].renderer_state = FALSE,
              !.outputs[o].shadow_surface = NULL,
              !.outputs[o].shadow_buf = NULL]

destroy_unlink(w, o) ==
    [w EXCEPT !.compositor.output_list = SelectSeq(@, LAMBDA x : x # o)]

fbdev_output_destroy(w, o) ==
    free_output(
        destroy_unlink(
            destroy_shadow(fbdev_output_disable(Log(w, "destroy", o, 0), o), o),
            o), o)

-----------------------------------------------------------------------------
(* VT Lifecycle Controller *)

compare_screen_info(a, b) ==
    IF /\ a.x_resolution = b.x_resolution
       /\ a.y_resolution = b.y_resolution
       /\ a.width_mm = b.width_mm
       /\ a.height_mm = b.height_mm
       /\ a.bits_per_pixel = b.bits_per_pixel
       /\ a.pixel_format = b.pixel_format
       /\ a.refresh_rate = b.refresh_rate
    THEN 0 ELSE 1

\* the result of the mode-set
reenable_set_mode(w, set) ==
    Log([w EXCEPT !.device = set.device], "set_screen_info", set.ret, 0)

\* output->device, read after free(output)
stale_device(dev_path, stale) ==
    IF stale = "intact" THEN dev_path ELSE GarbagePath

\* the mode-drift path, were it to return what fbdev_output_create returned
reenable_mode_drift_checked(w, o, in) ==
    fbdev_output_create(
        Log(fbdev_output_destroy(
                reenable_set_mode(w,
                    fbdev_set_screen_info(w.device, w.outputs[o].fb_info,
                                          in.set_ok)),
                o),
            "read_device", o, 0),
        stale_device(w.outputs[o].device, in.stale_device), in.create)

\* the mode-drift path of fbdev_output_reenable; the descriptor stays open,
\* and output->device is read for the creation after the output was freed
reenable_mode_drift(w, o, in) ==
    Ret(fbdev_output_create(
            Log(fbdev_output_destroy(
                    reenable_set_mode(w,
                        fbdev_set_screen_info(w.device, w.outputs[o].fb_info,
                                              in.set_ok)),
                    o),
                "read_device", o, 0),
            stale_device(w.outputs[o].device, in.stale_device), in.create),
        0)

\* fbdev_output_reenable after fbdev_frame_buffer_open
reenable_opened(w, o, in) ==
    IF w.fd < 0 THEN Ret(w, -1)
    ELSE IF compare_screen_info(w.outputs[o].fb_info, w.info) # 0
    THEN reenable_mode_drift(Log(w, "compare", o, 1), o, in)
    ELSE fbdev_frame_buffer_map(Log(w, "compare", o, 0), o, w.fd,
                                in.mmap_ok, in.hw_ok)

\* the value fbdev_output_reenable returns (vt_func does not read it)
reenable_return(w, o) == Log(w, "reenable_return", o, w.ret)

\* leaves the return value in w.ret
fbdev_output_reenable(w, o, in) ==
    reenable_return(
        reenable_opened(
            fbdev_frame_buffer_open(Log(w, "reenable", o, 0),
                                    w.outputs[o].device,
                                    in.open_ok, in.ioctl_ok),
            o, in), o)

in_list(list, o) == \E k \in 1..Len(list) : list[k] = o

\* the element after o in the output list, NULL at the end
list_next(list, o) ==
    IF list[Len(list)] = o THEN NULL
    ELSE list[1 + CHOOSE k \in 1..Len(list) : list[k] = o]

list_first(list) == IF list = <<>> THEN NULL ELSE Head(list)

\* wl_list_for_each(output, &output_list, link) fbdev_output_reenable(output)
RECURSIVE reenable_each(_, _, _)
RECURSIVE reenable_next(_, _, _)
reenable_each(w, o, in) ==
    IF o = NULL THEN w
    ELSE reenable_next(fbdev_output_reenable(w, o, in), o, in)

\* the step to output->link.next, which is read after free(output) when the
\* output has been destroyed
reenable_next(w, o, in) ==
    IF o \in DOMAIN w.outputs
    THEN reenable_each(Log(w, "read_next", o, 0),
                       list_next(w.compositor.output_list, o), in)
    ELSE IF in.stale_next = "end" THEN Log(w, "read_next", o, 0)
    ELSE [Log(w, "read_next", o, 0) EXCEPT !.phase = "crashed"]

RECURSIVE disable_each(_, _)
disable_each(w, list) ==
    IF list = <<>> THEN w
    ELSE disable_each(fbdev_output_disable(w, Head(list)), Tail(list))

RECURSIVE seat_each(_, _, _, _)
seat_each(w, i, name, enabled) ==
    IF i > Len(w.compositor.seat_list) THEN w
    ELSE seat_each(Log([w EXCEPT !.compositor.seat_list[i].enabled = enabled],
                       name, i, 0),
                   i + 1, name, enabled)

set_repaint_needed(w, needed) ==
    [w EXCEPT !.outputs =
        [x \in DOMAIN @ |->
            IF in_list(w.compositor.output_list, x)
            THEN [@[x] EXCEPT !.repaint_needed = needed] ELSE @[x]]]

weston_compositor_damage_all(w) ==
    Log(set_repaint_needed(w, TRUE), "damage_all", 0, 0)

weston_compositor_offscreen(w) ==
    Log([w EXCEPT !.compositor.state = WESTON_COMPOSITOR_OFFSCREEN],
        "offscreen", 0, 0)

enter_focus(w) ==
    [w EXCEPT !.compositor.focus = 1,
              !.compositor.state = w.compositor.prev_state]

enter_outputs(w, in) ==
    reenable_each(w, list_first(w.compositor.output_list), in)

enter_seats(w) ==
    IF w.phase = "crashed" THEN w
    ELSE seat_each(weston_compositor_damage_all(w), 1, "seat_enable", TRUE)

\* vt_func(TTY_ENTER_VT)
vt_enter(w, in) == enter_seats(enter_outputs(enter_focus(w), in))

leave_outputs(w) == disable_each(w, w.compositor.output_list)

leave_focus(w) ==
    [w EXCEPT !.compositor.focus = 0,
              !.compositor.prev_state = w.compositor.state]

\* vt_func(TTY_LEAVE_VT), were it to take the snapshot after going offscreen
vt_leave_late_snapshot(w) ==
    set_repaint_needed(
        leave_focus(
            weston_compositor_offscreen(
                leave_outputs(seat_each(w, 1, "seat_disable", FALSE)))),
        FALSE)

\* vt_func(TTY_LEAVE_VT)
vt_leave(w) ==
    set_repaint_needed(
        weston_compositor_offscreen(
            leave_focus(leave_outputs(seat_each(w, 1, "seat_disable", FALSE)))),
        FALSE)

\* the inputs this Enter can consume: the mode-drift path's when the device
\* reports another mode than an output has cached, the map's when it reports
\* the cached mode of one
Consumed(w, e) ==
    LET q == fbdev_query_screen_info(w.device, TRUE)
        listed == { o \in DOMAIN w.outputs :
                      in_list(w.compositor.output_list, o) }
    IN /\ (\A o \in listed :
              q.ret < 0 \/ compare_screen_info(w.outputs[o].fb_info, q.info) = 0)
            => e.set_ok /\ e.stale_device = "intact"
               /\ e.stale_next = "end" /\ e.create = AllOk
       /\ (\A o \in listed :
              q.ret < 0 \/ compare_screen_info(w.outputs[o].fb_info, q.info) # 0)
            => e.mmap_ok /\ e.hw_ok
       /\ q.ret < 0 => e.ioctl_ok

-----------------------------------------------------------------------------
(* Backend Lifecycle *)

\* struct fbdev_compositor before calloc() and after free()
NoCompositor ==
    [allocated |-> FALSE, core |-> FALSE, udev |-> FALSE, tty |-> FALSE,
     renderer |-> FALSE, focus |-> 0, state |-> WESTON_COMPOSITOR_ACTIVE,
     prev_state |-> WESTON_COMPOSITOR_ACTIVE,
     output_list |-> <<>>, seat_list |-> <<>>, damage |-> {}]

out_free(w) ==
    Log([w EXCEPT !.compositor = NoCompositor, !.phase = "failed"], "free", 0, 0)

out_compositor(w) ==
    out_free(Log([w EXCEPT !.compositor.core = FALSE], "compositor_shutdown", 0, 0))

out_udev(w) ==
    out_compositor(Log([w EXCEPT !.compositor.udev = FALSE], "udev_unref", 0, 0))

\* out_tty:, were the discovery context released before the tty
out_tty_after_udev(w) ==
    out_compositor(
        Log(Log([w EXCEPT !.compositor.udev = FALSE, !.compositor.tty = FALSE],
                "udev_unref", 0, 0),
            "tty_destroy", 0, 0))

out_tty(w) ==
    out_udev(Log([w EXCEPT !.compositor.tty = FALSE], "tty_destroy", 0, 0))

out_pixman(w) ==
    out_tty(Log([w EXCEPT !.compositor.renderer = FALSE], "renderer_destroy", 0, 0))

\* fbdev_compositor_create after fbdev_output_create
backend_seat(w) ==
    IF w.ret < 0 THEN out_pixman(w)
    ELSE Log([w EXCEPT !.compositor.seat_list = <<[enabled |-> TRUE]>>,
                       !.phase = "running"],
             "seat_create", 1, 0)

backend_output(w, in) ==
    IF ~in.renderer_ok THEN out_tty(w)
    ELSE backend_seat(
             fbdev_output_create(
                 Log([w EXCEPT !.compositor.renderer = TRUE], "renderer_init", 0, 0),
                 DevicePath, in.create))

backend_tty(w, in) ==
    IF ~in.tty_ok THEN out_udev(w)
    ELSE backend_output(
             Log([w EXCEPT !.compositor.tty = TRUE,
                           !.compositor.focus = 1,
                           !.compositor.prev_state = WESTON_COMPOSITOR_ACTIVE],
                 "tty_create", 0, 0), in)

backend_udev(w, in) ==
    IF ~in.udev_ok THEN out_compositor(w)
    ELSE backend_tty(Log([w EXCEPT !.compositor.udev = TRUE], "udev_new", 0, 0), in)

backend_core(w, in) ==
    IF ~in.core_ok THEN out_free(w)
    ELSE backend_udev(
             Log([w EXCEPT !.compositor.core = TRUE,
                           !.compositor.state = WESTON_COMPOSITOR_ACTIVE],
                 "compositor_init", 0, 0), in)

fbdev_compositor_create(w, in) ==
    IF ~in.calloc_ok THEN [w EXCEPT !.phase = "failed"]
    ELSE backend_core(Log([w EXCEPT !.compositor.allocated = TRUE],
                          "calloc", 0, 0), in)

RECURSIVE destroy_each(_, _)
destroy_each(w, list) ==
    IF list = <<>> THEN w
    ELSE destroy_each(fbdev_output_destroy(w, Head(list)), Tail(list))

destroy_seats(w) ==
    Log([w EXCEPT !.compositor.seat_list = <<>>], "seat_destroy", 0, 0)

weston_compositor_shutdown(w) ==
    Log([destroy_each(w, w.compositor.output_list)
           EXCEPT !.compositor.core = FALSE],
        "compositor_shutdown", 0, 0)

destroy_chain_up(w) ==
    Log(Log([w EXCEPT !.compositor.renderer = FALSE, !.compositor.tty = FALSE],
            "renderer_destroy", 0, 0),
        "tty_destroy", 0, 0)

fbdev_compositor_destroy(w) ==
    Log([destroy_chain_up(weston_compositor_shutdown(destroy_seats(w)))
           EXCEPT !.compositor.allocated = FALSE, !.phase = "destroyed"],
        "free", 0, 0)

-----------------------------------------------------------------------------
(* The state machine *)

\* the world a handler leaves becomes the state
Install(w) ==
    /\ phase' = w.phase
    /\ compositor' = w.compositor
    /\ outputs' = w.outputs
    /\ device' = w.device
    /\ mappings' = w.mappings
    /\ fds' = w.fds
    /\ images' = w.images
    /\ buffers' = w.buffers
    /\ timers' = w.timers
    /\ calls' = w.calls

\* what a later Enter is compared with
BeforeLeave ==
    [state |-> compositor.state,
     output_list |-> compositor.output_list,
     outputs |-> [o \in DOMAIN outputs |->
                    [shadow_surface |-> outputs[o].shadow_surface,
                     shadow_buf |-> outputs[o].shadow_buf,
                     fb_info |-> outputs[o].fb_info]]]

Init ==
    /\ phase = "none"
    /\ compositor = NoCompositor
    /\ outputs = <<>>
    /\ device \in DevStates
    /\ mappings = {}
    /\ fds = {}
    /\ images = {}
    /\ buffers = {}
    /\ timers = <<>>
    /\ calls = <<>>
    /\ vt = "ACTIVE"
    /\ prev_vt = "ACTIVE"
    /\ before_leave = BeforeLeave
    /\ nsteps = 0
    /\ arg = <<>>
    /\ res = <<>>

\* backend_init
BackendInit ==
    /\ phase = "none"
    /\ \E in \in BackendInputs :
         \E w \in {fbdev_compositor_create(World, in)} : Install(w)
    /\ UNCHANGED <<vt, prev_vt, before_leave, nsteps, arg, res>>

\* vt_func(TTY_ENTER_VT)
VtEnter ==
    /\ phase = "running"
    /\ nsteps < MaxSteps
    /\ \E in \in { e \in EnterInputs : Consumed(World, e) } :
         \E w \in {vt_enter(World, in)} : Install(w)
    /\ vt' = "ACTIVE"
    /\ prev_vt' = vt
    /\ nsteps' = nsteps + 1
    /\ UNCHANGED <<before_leave, arg, res>>

\* vt_func(TTY_LEAVE_VT)
VtLeave ==
    /\ phase = "running"
    /\ nsteps < MaxSteps
    /\ \E w \in {vt_leave(World)} : Install(w)
    /\ vt' = "SUSPENDED"
    /\ prev_vt' = vt
    /\ before_leave' = BeforeLeave
    /\ nsteps' = nsteps + 1
    /\ UNCHANGED <<arg, res>>

\* compositor->destroy
BackendDestroy ==
    /\ phase = "running"
    /\ \E w \in {fbdev_compositor_destroy(World)} : Install(w)
    /\ UNCHANGED <<vt, prev_vt, before_leave, nsteps, arg, res>>

\* the mode of the device is changed from outside (another VT's session)
\* before a VT event that will observe it
DeviceChange ==
    /\ phase = "running"
    /\ nsteps < MaxSteps
    /\ device' \in DevStates \ {device}
    /\ calls' = <<>>
    /\ UNCHANGED <<phase, compositor, outputs, mappings, fds, images, buffers,
                   timers, vt, prev_vt, before_leave, nsteps, arg, res>>

\* the host compositor goes idle, sleeps or wakes while it has the VT
HostActivity ==
    /\ phase = "running"
    /\ nsteps < MaxSteps
    /\ compositor.focus = 1
    /\ \E s \in {WESTON_COMPOSITOR_ACTIVE, WESTON_COMPOSITOR_SLEEPING}
                 \ {compositor.state} :
         compositor' = [compositor EXCEPT !.state = s]
    /\ calls' = <<>>
    /\ UNCHANGED <<phase, outputs, device, mappings, fds, images, buffers,
                   timers, vt, prev_vt, before_leave, nsteps, arg, res>>

Next ==
    \/ BackendInit
    \/ VtEnter
    \/ VtLeave
    \/ BackendDestroy
    \/ DeviceChange
    \/ HostActivity

Spec == Init /\ [][Next]_vars

\* the VT events as the tty layer delivers them: a Leave while the VT is held
TtyLeave == vt = "ACTIVE" /\ VtLeave

\* and an Enter while it is not
TtyEnter == vt = "SUSPENDED" /\ VtEnter

NextAlternating ==
    \/ BackendInit
    \/ TtyEnter
    \/ TtyLeave
    \/ BackendDestroy
    \/ DeviceChange
    \/ HostActivity

SpecAlternating == Init /\ [][NextAlternating]_vars

-----------------------------------------------------------------------------
(* What the properties read *)

\* the call e is in the log c
Called(c, e) == \E k \in 1..Len(c) : c[k] = e

\* a call of this name is in the log c
CalledName(c, name) == \E k \in 1..Len(c) : c[k][1] = name

\* the positions of the calls of this name in the log c
Positions(c, name) == { k \in 1..Len(c) : c[k][1] = name }

\* a VT Enter has just returned (or died)
JustEntered ==
    /\ phase \in {"running", "crashed"}
    /\ vt = "ACTIVE"
    /\ nsteps > 0
    /\ calls # <<>>

\* a VT Leave has just returned
JustLeft ==
    /\ phase = "running"
    /\ vt = "SUSPENDED"
    /\ calls # <<>>

\* this step is a VT Enter
EnterStep == nsteps' = nsteps + 1 /\ vt' = "ACTIVE"

\* this step is a VT Leave
LeaveStep == nsteps' = nsteps + 1 /\ vt' = "SUSPENDED"

\* the outputs in the output list
Listed == { o \in DOMAIN outputs : in_list(compositor.output_list, o) }

\* the output's fb is the address of a live mapping
Mapped(o) == \E m \in mappings : m.addr = outputs[o].fb

\* the output's hardware surface is a live image
HwLive(o) == \E i \in images : i.id = outputs[o].hw_surface

\* fbdev_output_reenable(o) failed to reopen or to remap the device
ReenableFailed(c, o) ==
    /\ Called(c, <<"reenable", o, 0>>)
    /\ ~Called(c, <<"compare", o, 1>>)
    /\ \/ Called(c, <<"open", -1, 0>>)
       \/ Called(c, <<"query", -1, 0>>)
       \/ Called(c, <<"mmap", MAP_FAILED, 0>>)
       \/ Called(c, <<"create_bits", NULL, 0>>)

-----------------------------------------------------------------------------
(* Properties *)

\* C1: between operations, an output's hardware surface is present if and only
\* if its mapped device memory reference is present (the code's own test of
\* presence: a pointer that is not NULL).
C1_SurfaceIffMapped ==
    phase = "running" =>
      \A o \in DOMAIN outputs :
        (outputs[o].hw_surface # NULL) <=> (outputs[o].fb # NULL)

\* C2: a VT Leave followed by a VT Enter that finds the queried screen info
\* equal to the cached one remaps the output in place: the output and the
\* output list are those before the Leave, no output is destroyed or created,
\* the shadow surface and shadow buffer are the same live objects, the cached
\* screen info is unchanged, and the hardware surface made by the Enter is a
\* view of the mapping made by the Enter.
C2_RemapInPlace ==
    (JustEntered /\ prev_vt = "SUSPENDED") =>
      \A o \in DOMAIN before_leave.outputs :
        Called(calls, <<"compare", o, 0>>) =>
          /\ o \in DOMAIN outputs
          /\ compositor.output_list = before_leave.output_list
          /\ ~CalledName(calls, "destroy")
          /\ ~CalledName(calls, "create")
          /\ outputs[o].shadow_surface = before_leave.outputs[o].shadow_surface
          /\ outputs[o].shadow_buf = before_leave.outputs[o].shadow_buf
          /\ outputs[o].shadow_buf \in buffers
          /\ \E i \in images : /\ i.id = outputs[o].shadow_surface
                               /\ i.bits = outputs[o].shadow_buf
          /\ outputs[o].fb_info = before_leave.outputs[o].fb_info
          /\ \A k \in Positions(calls, "create_bits") :
               calls[k][2] # NULL =>
                 /\ outputs[o].hw_surface = calls[k][2]
                 /\ Mapped(o)
                 /\ Image(images, outputs[o].hw_surface).bits = outputs[o].fb

\* C2: an Enter after a Leave has remapped the output in place
C2_Witness ==
    /\ JustEntered
    /\ phase = "running"
    /\ prev_vt = "SUSPENDED"
    /\ \E o \in DOMAIN outputs :
         /\ Called(calls, <<"compare", o, 0>>)
         /\ Mapped(o)
         /\ HwLive(o)

\* the new output n carries this resolution in its screen info, its mode and
\* its shadow surface
Carries(outs, imgs, n, xres, yres) ==
    /\ outs[n].fb_info.x_resolution = xres
    /\ outs[n].fb_info.y_resolution = yres
    /\ outs[n].mode.width = xres
    /\ outs[n].mode.height = yres
    /\ Image(imgs, outs[n].shadow_surface).width = xres
    /\ Image(imgs, outs[n].shadow_surface).height = yres

\* the old output o is destroyed by this step and its shadow freed
DestroyedByStep(o) ==
    /\ o \notin DOMAIN outputs'
    /\ ~in_list(compositor'.output_list, o)
    /\ \A i \in images' : i.id # outputs[o].shadow_surface
    /\ outputs[o].shadow_buf \notin buffers'

\* the output list of this step's start with o removed
ListWithout(o) == SelectSeq(compositor.output_list, LAMBDA x : x # o)

\* the outputs this step has created
Created == (DOMAIN outputs') \ (DOMAIN outputs)

\* C3 as stated: when VT Enter finds the queried screen info to differ from
\* the cached one, the old output is destroyed, its shadow freed, and the new
\* output created under the same device path has a screen info, a mode and a
\* shadow surface that carry the new resolution observed at Enter.
C3_NewResolution ==
    [][EnterStep =>
         \A o \in DOMAIN outputs :
           Called(calls', <<"compare", o, 1>>) =>
             /\ DestroyedByStep(o)
             /\ \A n \in Created :
                  /\ outputs'[n].device = outputs[o].device
                  /\ in_list(compositor'.output_list, n)
                  /\ Carries(outputs', images', n,
                             device.var.xres, device.var.yres)]_vars

\* C3 as amended: when VT Enter finds the queried screen info to differ from
\* the cached one, a mode-set of the cached mode is attempted, the old output
\* is destroyed, its shadow freed, and the creation of an output is attempted
\* once.  An output created in its place is under the same device path and in
\* the output list, and its screen info, mode and shadow surface carry the
\* resolution the device reports after the mode-set: the cached resolution
\* when the mode-set succeeded, the one observed at Enter only when it
\* failed.  When the creation fails the output list is left without the
\* output.
C3_DriftRebuilds ==
    [][EnterStep =>
         \A o \in DOMAIN outputs :
           Called(calls', <<"compare", o, 1>>) =>
             /\ CalledName(calls', "set_screen_info")
             /\ DestroyedByStep(o)
             /\ Cardinality(Positions(calls', "create")) = 1
             /\ Cardinality(Created) <= 1
             /\ Created = {} =>
                  /\ Called(calls', <<"create", NULL, -1>>)
                  /\ compositor'.output_list = ListWithout(o)
             /\ \A n \in Created :
                  /\ Called(calls', <<"create", n, 0>>)
                  /\ outputs'[n].device = outputs[o].device
                  /\ compositor'.output_list = Append(ListWithout(o), n)
                  /\ Carries(outputs', images', n,
                             device'.var.xres, device'.var.yres)
                  /\ Called(calls', <<"set_screen_info", 1, 0>>) =>
                       Carries(outputs', images', n,
                               outputs[o].fb_info.x_resolution,
                               outputs[o].fb_info.y_resolution)
                  /\ Called(calls', <<"set_screen_info", -1, 0>>) =>
                       Carries(outputs', images', n,
                               device.var.xres, device.var.yres)]_vars

\* C3: an Enter has found another mode, restored the cached one and created a
\* new output
C3_Witness ==
    /\ JustEntered
    /\ \E k \in Positions(calls, "compare") : calls[k][3] = 1
    /\ Called(calls, <<"set_screen_info", 1, 0>>)
    /\ \E n \in Listed : Called(calls, <<"create", n, 0>>)

\* C4: a VT Leave that follows a VT Leave with no Enter between them changes
\* nothing: the mapping is not unmapped again, no seat is disabled again, and
\* the snapshot of the activity state stays the one the first Leave took.
C4_LeaveIdempotent ==
    [][(LeaveStep /\ vt = "SUSPENDED") =>
         /\ compositor' = compositor
         /\ outputs' = outputs
         /\ mappings' = mappings
         /\ images' = images
         /\ ~CalledName(calls', "munmap")
         /\ ~CalledName(calls', "seat_disable")]_vars

\* C5: at most one live mapping of the device exists, it is held by exactly
\* one output, and after a Leave no mapping of the device exists.
C5_ExclusiveMapping ==
    phase = "running" =>
      /\ Cardinality(mappings) <= 1
      /\ \A m \in mappings :
           Cardinality({ o \in DOMAIN outputs : outputs[o].fb = m.addr }) = 1
      /\ vt = "SUSPENDED" => mappings = {}

\* C6: the controller is ACTIVE or SUSPENDED; while ACTIVE every output in the
\* list is mapped with a live hardware surface and every seat is enabled;
\* while SUSPENDED every output is unmapped with no hardware surface, every
\* seat is disabled, no repaint is pending and the backend is unfocused and
\* offscreen.
C6_StateMeanings ==
    phase = "running" =>
      /\ vt \in {"ACTIVE", "SUSPENDED"}
      /\ vt = "ACTIVE" =>
           /\ \A o \in Listed : Mapped(o) /\ HwLive(o)
           /\ \A i \in 1..Len(compositor.seat_list) :
                compositor.seat_list[i].enabled
      /\ vt = "SUSPENDED" =>
           /\ \A o \in Listed :
                /\ outputs[o].fb = NULL
                /\ outputs[o].hw_surface = NULL
                /\ ~outputs[o].repaint_needed
           /\ \A i \in 1..Len(compositor.seat_list) :
                ~compositor.seat_list[i].enabled
           /\ compositor.focus = 0
           /\ compositor.state = WESTON_COMPOSITOR_OFFSCREEN

\* C7: a VT Enter that follows a VT Leave leaves the activity state at the
\* value it had when the Leave arrived and the focus flag set; the snapshot a
\* Leave takes is the activity state from before it went offscreen.
C7_EnterRestores ==
    /\ (JustEntered /\ prev_vt = "SUSPENDED") =>
         /\ compositor.state = before_leave.state
         /\ compositor.focus = 1
    /\ JustLeft => compositor.prev_state = before_leave.state

\* C7: an Enter after a Leave has restored the sleeping state
C7_Witness ==
    /\ JustEntered
    /\ prev_vt = "SUSPENDED"
    /\ before_leave.state = WESTON_COMPOSITOR_SLEEPING
    /\ compositor.state = WESTON_COMPOSITOR_SLEEPING
    /\ compositor.prev_state = WESTON_COMPOSITOR_SLEEPING

\* C8: when reopening or remapping the device fails for an output at VT Enter,
\* the Enter still completes: the compositor is damaged exactly once, after
\* every output has been processed, every seat is enabled after that, and the
\* failing output is left without a mapping and without a hardware surface.
C8_EnterFailureContained ==
    JustEntered =>
      \A o \in DOMAIN outputs :
        ReenableFailed(calls, o) =>
          /\ phase = "running"
          /\ Cardinality(Positions(calls, "damage_all")) = 1
          /\ \A d \in Positions(calls, "damage_all") :
               /\ \A k \in Positions(calls, "reenable") : k < d
               /\ \A i \in 1..Len(compositor.seat_list) :
                    /\ compositor.seat_list[i].enabled
                    /\ \E k \in Positions(calls, "seat_enable") :
                         k > d /\ calls[k][2] = i
          /\ ~Mapped(o)
          /\ outputs[o].hw_surface = NULL

\* C9: when the creation of the output fails at backend start, nothing is left
\* behind: no mapping, no open descriptor, no surface, no shadow buffer, no
\* output.
C9_CreateLeavesNothing ==
    (phase = "failed" /\ Called(calls, <<"create", NULL, -1>>)) =>
      /\ mappings = {}
      /\ fds = {}
      /\ images = {}
      /\ buffers = {}
      /\ DOMAIN outputs = {}
      /\ compositor.output_list = <<>>

AcquireNames == {"calloc", "compositor_init", "udev_new", "tty_create",
                 "renderer_init"}

ReleaseNames == {"renderer_destroy", "tty_destroy", "udev_unref",
                 "compositor_shutdown", "free"}

\* the releases a failed construction must make, given what it acquired
ExpectedUnwind(c) ==
    (IF CalledName(c, "renderer_init") THEN <<"renderer_destroy">> ELSE <<>>)
    \o (IF CalledName(c, "tty_create") THEN <<"tty_destroy">> ELSE <<>>)
    \o (IF CalledName(c, "udev_new") THEN <<"udev_unref">> ELSE <<>>)
    \o (IF CalledName(c, "compositor_init") THEN <<"compositor_shutdown">> ELSE <<>>)
    \o (IF CalledName(c, "calloc") THEN <<"free">> ELSE <<>>)

\* the names of the releases made, in order
Unwound(c) ==
    LET r == SelectSeq(c, LAMBDA e : e[1] \in ReleaseNames)
    IN [k \in 1..Len(r) |-> r[k][1]]

\* C10: a backend construction that fails releases exactly what it had
\* acquired, each once, in reverse order of acquisition (rasterizer, tty,
\* discovery context, compositor core, backend memory), every release after
\* every acquisition, and leaves no backend object.
C10_ReverseUnwind ==
    phase = "failed" =>
      /\ Unwound(calls) = ExpectedUnwind(calls)
      /\ \A a \in AcquireNames : Cardinality(Positions(calls, a)) <= 1
      /\ \A a \in AcquireNames, r \in ReleaseNames :
           \A i \in Positions(calls, a), j \in Positions(calls, r) : i < j
      /\ compositor = NoCompositor

\* C10: the construction has failed at the output and unwound the rasterizer,
\* the tty, the discovery context and the core
C10_Witness ==
    /\ phase = "failed"
    /\ Called(calls, <<"create", NULL, -1>>)
    /\ Unwound(calls) = <<"renderer_destroy", "tty_destroy", "udev_unref",
                          "compositor_shutdown", "free">>

-----------------------------------------------------------------------------
(* Function studies: a function of the backend applied on its own to       *)
(* arguments drawn from a bounded set, the program itself not constructed  *)

Parked ==
    /\ phase = "none"
    /\ compositor = NoCompositor
    /\ outputs = <<>>
    /\ device = [var |-> VarInfo(1920, 1080, 0),
                 fix |-> FixInfo(8294400, 7680, "fb0")]
    /\ mappings = {}
    /\ fds = {}
    /\ images = {}
    /\ buffers = {}
    /\ timers = <<>>
    /\ calls = <<>>
    /\ vt = "ACTIVE"
    /\ prev_vt = "ACTIVE"
    /\ before_leave = BeforeLeave
    /\ nsteps = 0

StaysParked ==
    UNCHANGED <<phase, compositor, outputs, device, mappings, fds, images,
                buffers, timers, calls, vt, prev_vt, before_leave, nsteps>>

\* the function has been applied to arg
Applied == res # <<>>

-----------------------------------------------------------------------------
(* compare_screen_info on two screen infos *)

\* the fields of struct fbdev_screeninfo
InfoFields ==
    {"x_resolution", "y_resolution", "width_mm", "height_mm",
     "bits_per_pixel", "buffer_length", "line_length", "id", "pixel_format",
     "refresh_rate"}

\* what fbdev_query_screen_info fills in for a 1920x1080 x8r8g8b8 device
BaseInfo == fbdev_query_screen_info(
                [var |-> VarInfo(1920, 1080, 0),
                 fix |-> FixInfo(8294400, 7680, "fb0")], TRUE).info

\* another plausible value of a field
OtherValue(f) ==
    CASE f = "x_resolution" -> 1280
      [] f = "y_resolution" -> 1024
      [] f = "width_mm" -> 340
      [] f = "height_mm" -> 270
      [] f = "bits_per_pixel" -> 16
      [] f = "buffer_length" -> 16777216
      [] f = "line_length" -> 8192
      [] f = "id" -> "fb1"
      [] f = "pixel_format" -> PIXMAN_FORMAT(32, PIXMAN_TYPE_RGBA, 8, 8, 8, 8)
      [] f = "refresh_rate" -> 59940

\* the base info with the fields of fs changed
Variant(fs) ==
    [f \in InfoFields |-> IF f \in fs THEN OtherValue(f) ELSE BaseInfo[f]]

InfoPairs ==
    UNION { {<<BaseInfo, Variant(fs)>>, <<Variant(fs), BaseInfo>>,
             <<Variant(fs), Variant(fs)>>} : fs \in SUBSET InfoFields }

InitCompare == Parked /\ arg \in InfoPairs /\ res = <<>>

Compare ==
    /\ ~Applied
    /\ res' = <<compare_screen_info(arg[1], arg[2])>>
    /\ UNCHANGED arg
    /\ StaysParked

SpecCompare == InitCompare /\ [][Compare]_vars

\* C11: two screen infos compare equal (compare_screen_info returns 0)
\* exactly when every field other than the identifier string is equal: the
\* two resolutions, the two physical sizes, the bits per pixel, the buffer
\* length, the line stride, the pixel format and the refresh rate
C11_EqualExceptId ==
    Applied =>
        ((res[1] = 0) <=>
             \A f \in InfoFields \ {"id"} : arg[1][f] = arg[2][f])

-----------------------------------------------------------------------------
(* calculate_pixman_format on a device format descriptor *)

FB_TYPE_PLANES == 1

FB_VISUAL_PSEUDOCOLOR == 3

\* <<transp, red, green, blue>>, each <<offset, length>>, and the bits per
\* pixel: x8r8g8b8, a8r8g8b8, r8g8b8a8, r5g6b5, b8g8r8, r8g8b8 with the
\* channels two bits apart, alpha between red and green, and four channels
\* that all claim bits 0..7
Layouts ==
    { <<<<24, 0>>, <<16, 8>>, <<8, 8>>, <<0, 8>>, 32>>,
      <<<<24, 8>>, <<16, 8>>, <<8, 8>>, <<0, 8>>, 32>>,
      <<<<0, 8>>, <<24, 8>>, <<16, 8>>, <<8, 8>>, 32>>,
      <<<<0, 0>>, <<11, 5>>, <<5, 6>>, <<0, 5>>, 16>>,
      <<<<0, 0>>, <<0, 8>>, <<8, 8>>, <<16, 8>>, 24>>,
      <<<<0, 0>>, <<20, 8>>, <<10, 8>>, <<0, 8>>, 32>>,
      <<<<16, 8>>, <<24, 8>>, <<8, 8>>, <<0, 8>>, 32>>,
      <<<<0, 8>>, <<0, 8>>, <<0, 8>>, <<0, 8>>, 32>> }

ChannelNames == {"transp", "red", "green", "blue"}

\* a descriptor of layout l in which the most significant bit of channel m
\* (if m is a channel) is on the right
Descriptor(l, m, type, visual, grayscale) ==
    [vinfo |-> [bits_per_pixel |-> l[5], grayscale |-> grayscale,
                transp |-> Channel(l[1][1], l[1][2],
                                   IF m = "transp" THEN 1 ELSE 0),
                red |-> Channel(l[2][1], l[2][2], IF m = "red" THEN 1 ELSE 0),
                green |-> Channel(l[3][1], l[3][2],
                                  IF m = "green" THEN 1 ELSE 0),
                blue |-> Channel(l[4][1], l[4][2],
                                 IF m = "blue" THEN 1 ELSE 0)],
     finfo |-> [type |-> type, visual |-> visual]]

Descriptors ==
    { Descriptor(l, m, type, visual, grayscale) :
        l \in Layouts, m \in ChannelNames \cup {"none"},
        type \in {FB_TYPE_PACKED_PIXELS, FB_TYPE_PLANES},
        visual \in {FB_VISUAL_TRUECOLOR, FB_VISUAL_PSEUDOCOLOR},
        grayscale \in {0, 1} }

InitFormat == Parked /\ arg \in Descriptors /\ res = <<>>

ResolveFormat ==
    /\ ~Applied
    /\ res' = <<calculate_pixman_format(arg.vinfo, arg.finfo)>>
    /\ UNCHANGED arg
    /\ StaysParked

SpecFormat == InitFormat /\ [][ResolveFormat]_vars

\* a channel that has bits
Present(v, c) == v[c].length > 0

\* alpha (if present) above red above green above blue
StrictlyARGB(v) ==
    /\ Present(v, "transp") => v.transp.offset > v.red.offset
    /\ v.red.offset > v.green.offset
    /\ v.green.offset > v.blue.offset

\* red above green above blue above alpha (if present)
StrictlyRGBA(v) ==
    /\ v.red.offset > v.green.offset
    /\ v.green.offset > v.blue.offset
    /\ Present(v, "transp") => v.blue.offset > v.transp.offset

Unsupported(d) ==
    \/ d.finfo.type # FB_TYPE_PACKED_PIXELS
    \/ d.finfo.visual # FB_VISUAL_TRUECOLOR
    \/ d.vinfo.grayscale # 0
    \/ \E c \in ChannelNames : Present(d.vinfo, c) /\ d.vinfo[c].msb_right # 0
    \/ ~(StrictlyARGB(d.vinfo) \/ StrictlyRGBA(d.vinfo))

\* C12: for every descriptor that is planar, not true-colour, grayscale,
\* has a channel (red, green, blue or alpha) with its most significant bit
\* on the right, or whose channel offsets are neither strictly in ARGB order
\* nor strictly in RGBA order (equal offsets included),
\* calculate_pixman_format returns 0
C12_UnsupportedIsZero ==
    (Applied /\ Unsupported(arg)) => res[1] = 0

\* the fields PIXMAN_FORMAT packs into a format code
FormatBpp(f) == f \div 16777216

FormatType(f) == (f \div 65536) % 256

FormatLength(f, c) ==
    CASE c = "transp" -> (f \div 4096) % 16
      [] c = "red" -> (f \div 256) % 16
      [] c = "green" -> (f \div 16) % 16
      [] c = "blue" -> f % 16

\* where the pixel's bits of a channel start in an image of the format: an
\* ARGB format packs blue, green, red, alpha upwards from bit 0; an RGBA
\* format packs red, green, blue downwards from the top bit and alpha at
\* bit 0
FormatOffset(f, c) ==
    IF FormatType(f) = PIXMAN_TYPE_ARGB
    THEN CASE c = "blue" -> 0
           [] c = "green" -> FormatLength(f, "blue")
           [] c = "red" -> FormatLength(f, "blue") + FormatLength(f, "green")
           [] c = "transp" -> FormatLength(f, "blue") + FormatLength(f, "green")
                                + FormatLength(f, "red")
    ELSE CASE c = "red" -> FormatBpp(f) - FormatLength(f, "red")
           [] c = "green" -> FormatBpp(f) - FormatLength(f, "red")
                               - FormatLength(f, "green")
           [] c = "blue" -> FormatBpp(f) - FormatLength(f, "red")
                              - FormatLength(f, "green") - FormatLength(f, "blue")
           [] c = "transp" -> 0

\* C13: for every descriptor calculate_pixman_format accepts (a packed,
\* true-colour, MSB-left descriptor with its channels strictly in ARGB or
\* RGBA order), the format it returns places each channel the descriptor
\* has at the bit offset and with the bit length the descriptor gives it
\* (so that a pixel encoded against the descriptor decodes unchanged
\* against the format), and has the descriptor's bits per pixel
C13_FormatMatchesDescriptor ==
    (Applied /\ res[1] # 0 /\ ~Unsupported(arg)) =>
        /\ FormatBpp(res[1]) = arg.vinfo.bits_per_pixel
        /\ \A c \in ChannelNames :
             Present(arg.vinfo, c) =>
                 /\ FormatLength(res[1], c) = arg.vinfo[c].length
                 /\ FormatOffset(res[1], c) = arg.vinfo[c].offset

-----------------------------------------------------------------------------
(* calculate_refresh_rate on a device's timings *)

\* how many times a function is applied in its study
MaxSamples == 2

\* pixclock in picoseconds: not reported, 1 ps, 1080p at 60 Hz, VGA, half a
\* millisecond and the largest value kept here
Pixclocks == {0, 1, 6734, 39721, 500000000, 2147483647}

\* the vertical extent <<upper_margin, lower_margin, yres>> is nothing
\* reported, VGA, 1080p or three values whose sum is 2^32; the horizontal
\* extent <<left_margin, right_margin, xres>> likewise, the sum 2^32 - 1
Timings ==
    { [upper_margin |-> v[1], lower_margin |-> v[2], yres |-> v[3],
       left_margin |-> h[1], right_margin |-> h[2], xres |-> h[3],
       pixclock |-> p] :
        v \in { <<0, 0, 0>>, <<33, 10, 480>>, <<36, 4, 1080>>,
                <<2147483647, 2147483647, 2>> },
        h \in { <<0, 0, 0>>, <<48, 16, 640>>, <<148, 88, 1920>>,
                <<2147483647, 2147483647, 1>> },
        p \in Pixclocks }

InitRefresh == Parked /\ arg \in Timings /\ res = <<>>

\* the rate for arg, then the same geometry with a pixel clock not below
Refresh ==
    /\ Len(res) < MaxSamples
    /\ res' = Append(res, <<arg.pixclock, calculate_refresh_rate(arg)>>)
    /\ \E p \in Pixclocks :
         /\ p >= arg.pixclock
         /\ arg' = [arg EXCEPT !.pixclock = p]
    /\ StaysParked

SpecRefresh == InitRefresh /\ [][Refresh]_vars

\* the frame period is zero: the pixel clock or one of the two extents
PeriodZero(t, pixclock) ==
    \/ pixclock = 0
    \/ t.upper_margin = 0 /\ t.lower_margin = 0 /\ t.yres = 0
    \/ t.left_margin = 0 /\ t.right_margin = 0 /\ t.xres = 0

\* C14: for all margins, resolutions and pixel clocks, the refresh rate
\* calculate_refresh_rate returns is strictly positive, at most 200000 mHz,
\* equal to 60000 mHz when the frame period is zero, and does not increase
\* when the pixel clock period increases (the geometry being the same)
C14_RefreshRate ==
    /\ \A i \in DOMAIN res :
         /\ res[i][2] > 0
         /\ res[i][2] <= RefreshCap
         /\ PeriodZero(arg, res[i][1]) => res[i][2] = RefreshDefault
    /\ \A i, j \in DOMAIN res :
         res[i][1] <= res[j][1] => res[i][2] >= res[j][2]

-----------------------------------------------------------------------------
(* The rectangle fbdev_output_repaint composites, for each transform *)

\* the transforms tried are 0..MaxTransform (enum wl_output_transform ends
\* with the four flipped transforms, 4..7)
MaxTransform == 7

\* the size of the shadow surface the rectangles are mapped against
ShadowWidth == 4

ShadowHeight == 3

Box(x1, x2, y1, y2) == [x1 |-> x1, x2 |-> x2, y1 |-> y1, y2 |-> y2]

\* the switch on base->transform, with the 90 and 270 cases exchanged
transformed_rect_exchanged(transform, r, width, height) ==
    CASE transform = WL_OUTPUT_TRANSFORM_180 ->
           Box(width - r.x2, width - r.x1, height - r.y2, height - r.y1)
      [] transform = WL_OUTPUT_TRANSFORM_270 ->
           Box(height - r.y2, height - r.y1, r.x1, r.x2)
      [] transform = WL_OUTPUT_TRANSFORM_90 ->
           Box(r.y1, r.y2, width - r.x2, width - r.x1)
      [] OTHER -> Box(r.x1, r.x2, r.y1, r.y2)

\* the switch on base->transform in fbdev_output_repaint: x1, x2, y1, y2
\* for the damage rectangle r
transformed_rect(transform, r, width, height) ==
    CASE transform = WL_OUTPUT_TRANSFORM_180 ->
           Box(width - r.x2, width - r.x1, height - r.y2, height - r.y1)
      [] transform = WL_OUTPUT_TRANSFORM_90 ->
           Box(height - r.y2, height - r.y1, r.x1, r.x2)
      [] transform = WL_OUTPUT_TRANSFORM_270 ->
           Box(r.y1, r.y2, width - r.x2, width - r.x1)
      [] OTHER -> Box(r.x1, r.x2, r.y1, r.y2)

\* the non-empty rectangles with corners on the grid of the shadow surface
Rects ==
    { r \in [x1 : 0..ShadowWidth, x2 : 0..ShadowWidth,
             y1 : 0..ShadowHeight, y2 : 0..ShadowHeight] :
        r.x1 < r.x2 /\ r.y1 < r.y2 }

InitTransform ==
    /\ Parked
    /\ arg \in [transform : 0..MaxTransform, rect : Rects]
    /\ res = <<>>

\* the rectangle mapped, then what it was mapped to mapped again
TransformRect ==
    /\ Len(res) < MaxSamples
    /\ res' = Append(res, transformed_rect(
                              arg.transform,
                              IF res = <<>> THEN arg.rect ELSE res[Len(res)],
                              ShadowWidth, ShadowHeight))
    /\ UNCHANGED arg
    /\ StaysParked

SpecTransform == InitTransform /\ [][TransformRect]_vars

\* the table of the specification
TableRect(transform, r, width, height) ==
    IF transform = WL_OUTPUT_TRANSFORM_180
    THEN [x1 |-> width - r.x2, x2 |-> width - r.x1,
          y1 |-> height - r.y2, y2 |-> height - r.y1]
    ELSE IF transform = WL_OUTPUT_TRANSFORM_90
    THEN [x1 |-> height - r.y2, x2 |-> height - r.y1, y1 |-> r.x1, y2 |-> r.x2]
    ELSE IF transform = WL_OUTPUT_TRANSFORM_270
    THEN [x1 |-> r.y1, x2 |-> r.y2, y1 |-> width - r.x2, y2 |-> width - r.x1]
    ELSE r

\* C15: repaint maps a damage rectangle (x1, x2, y1, y2) to itself for the
\* normal transform, to (width - x2, width - x1, height - y2, height - y1)
\* for 180, to (height - y2, height - y1, x1, x2) for 90, to
\* (y1, y2, width - x2, width - x1) for 270 and as normal for every other
\* transform; so the normal transform leaves it unchanged and the 180
\* transform applied twice gives it back
C15_TransformTable ==
    /\ Applied =>
         /\ res[1] = TableRect(arg.transform, arg.rect,
                               ShadowWidth, ShadowHeight)
         /\ arg.transform = WL_OUTPUT_TRANSFORM_NORMAL => res[1] = arg.rect
    /\ (Len(res) >= 2 /\ arg.transform = WL_OUTPUT_TRANSFORM_180) =>
           res[2] = arg.rect

\* a rectangle the 180 transform moves has been mapped twice
C15_Witness ==
    /\ Len(res) >= 2
    /\ arg.transform = WL_OUTPUT_TRANSFORM_180
    /\ res[1] # arg.rect

-----------------------------------------------------------------------------
(* Output Surface Pipeline: repaint and the frame timer *)

\* a damage region is a set of these disjoint rectangles
DamageRects == {Box(0, 16, 0, 16), Box(16, 32, 8, 16)}

\* pixman_region32_rectangles: the rectangles of a region, in order
RECURSIVE rectangles(_)
rectangles(region) ==
    IF region = {} THEN <<>>
    ELSE <<CHOOSE r \in region : \A q \in region : r.x1 <= q.x1>>
           \o rectangles(region \ {CHOOSE r \in region :
                                      \A q \in region : r.x1 <= q.x1})

\* arms the timer to fire once after ms_delay milliseconds; a delay of 0
\* disarms it
wl_event_source_timer_update(w, t, ms_delay) ==
    Log([w EXCEPT !.timers[t].armed = ms_delay > 0,
                  !.timers[t].ms_delay = ms_delay],
        "timer_update", t, ms_delay)

\* the last statement of fbdev_output_repaint; the division by a zero
\* refresh rate is undefined: it traps, or yields 0
repaint_timer(w, o, div0) ==
    IF w.outputs[o].mode.refresh # 0
    THEN wl_event_source_timer_update(w, w.outputs[o].finish_frame_timer,
                                      1000000 \div w.outputs[o].mode.refresh)
    ELSE IF div0 = "trap" THEN [w EXCEPT !.phase = "crashed"]
    ELSE wl_event_source_timer_update(w, w.outputs[o].finish_frame_timer, 0)

\* the loop over the rectangles of the damage, from rectangle i on; a
\* composite onto a hardware surface that is not there ends the program
RECURSIVE repaint_rects(_, _, _, _)
repaint_rects(w, o, rects, i) ==
    IF i > Len(rects) THEN w
    ELSE IF w.outputs[o].hw_surface = NULL
    THEN [Log(w, "composite", NULL, rects[i]) EXCEPT !.phase = "crashed"]
    ELSE repaint_rects(
             Log(w, "composite", w.outputs[o].hw_surface,
                 transformed_rect(
                     w.outputs[o].transform, rects[i],
                     Image(w.images, w.outputs[o].shadow_surface).width,
                     Image(w.images, w.outputs[o].shadow_surface).height)),
             o, rects, i + 1)

\* pixman_region32_subtract on the damage of the primary plane, then the
\* timer
repaint_finish(w, o, damage, div0) ==
    IF w.phase = "crashed" THEN w
    ELSE repaint_timer(
             Log([w EXCEPT !.compositor.damage = @ \ damage],
                 "region_subtract", 0, 0), o, div0)

fbdev_output_repaint(w, o, damage, div0) ==
    repaint_finish(
        repaint_rects(
            Log(Log(Log(w, "repaint", o, damage),
                    "set_buffer", o, w.outputs[o].shadow_surface),
                "repaint_output", o, 0),
            o, rectangles(damage), 1),
        o, damage, div0)

\* finish_frame_handler(data); data read after the output was freed is
\* undefined: the program dies, or the memory is still as it was
finish_frame_handler(w, data, stale) ==
    IF data \notin DOMAIN w.outputs /\ stale = "crash"
    THEN [w EXCEPT !.phase = "crashed"]
    ELSE Ret(Log(w, "finish_frame", data, 0), 1)

\* the event loop dispatches an expired timer: it is armed no longer
timer_dispatch(w, t, stale) ==
    finish_frame_handler(
        Log([w EXCEPT !.timers[t].armed = FALSE], "timer_fired", t, 0),
        w.timers[t].data, stale)

\* devices that report their timings: a 1920x1080 mode with the pixel clock
\* not reported, 1 ps, 6734 ps and half a millisecond
TimedDevStates ==
    { [var |-> [VarInfo(1920, 1080, 0) EXCEPT !.pixclock = p],
       fix |-> FixInfo(8294400, 1920 * 4, "fb")] :
        p \in {0, 1, 6734, 500000000} }

InitRepaint ==
    /\ phase = "none"
    /\ compositor = NoCompositor
    /\ outputs = <<>>
    /\ device \in TimedDevStates
    /\ mappings = {}
    /\ fds = {}
    /\ images = {}
    /\ buffers = {}
    /\ timers = <<>>
    /\ calls = <<>>
    /\ vt = "ACTIVE"
    /\ prev_vt = "ACTIVE"
    /\ before_leave = BeforeLeave
    /\ nsteps = 0
    /\ arg = <<>>
    /\ res = <<>>

\* the host damages a part of the screen
HostDamage ==
    /\ phase = "running"
    /\ \E r \in DamageRects \ compositor.damage :
         compositor' = [compositor EXCEPT !.damage = @ \cup {r}]
    /\ calls' = <<>>
    /\ UNCHANGED <<phase, outputs, device, mappings, fds, images, buffers,
                   timers, vt, prev_vt, before_leave, nsteps, arg, res>>

\* the host calls output->repaint with a damage region
Repaint ==
    /\ phase = "running"
    /\ \E o \in Listed, damage \in SUBSET DamageRects, div0 \in {"trap", "zero"} :
         \E w \in {fbdev_output_repaint(World, o, damage, div0)} : Install(w)
    /\ UNCHANGED <<vt, prev_vt, before_leave, nsteps, arg, res>>

\* an armed frame timer expires
FinishFrame ==
    /\ phase = "running"
    /\ \E t \in DOMAIN timers, stale \in {"crash", "intact"} :
         /\ timers[t].armed
         /\ \E w \in {timer_dispatch(World, t, stale)} : Install(w)
    /\ UNCHANGED <<vt, prev_vt, before_leave, nsteps, arg, res>>

NextRepaint ==
    \/ BackendInit
    \/ HostDamage
    \/ Repaint
    \/ FinishFrame

SpecRepaint == InitRepaint /\ [][NextRepaint]_vars

\* the log c is that of a repaint
IsRepaint(c) == c # <<>> /\ c[1][1] = "repaint"

\* the log c is that of an expired frame timer
IsTimerFired(c) == c # <<>> /\ c[1][1] = "timer_fired"

\* C16: the frame timer fires once per arm and every repaint (re)arms it.
\* A frame-completion report is made only by the expiry of a timer that a
\* repaint had armed and that had not fired since, and that expiry leaves
\* the timer idle (so reports never outnumber repaints); and when a repaint
\* has been made, the timer of its output is armed, so that the report for
\* it is still to come
C16_OneReportPerRepaint ==
    [][/\ IsTimerFired(calls') =>
            /\ timers[calls'[1][2]].armed
            /\ ~timers'[calls'[1][2]].armed
            /\ Cardinality(Positions(calls', "finish_frame")) <= 1
       /\ CalledName(calls', "finish_frame") => IsTimerFired(calls')
       /\ \A t \in DOMAIN timers :
            (~timers[t].armed /\ timers'[t].armed) => IsRepaint(calls')
       /\ IsRepaint(calls') =>
            timers'[outputs[calls'[1][2]].finish_frame_timer].armed]_vars

\* C19: a repaint of a damage region first has the renderer paint into the
\* shadow surface, then composites every rectangle of the region onto the
\* hardware surface, then leaves the accumulated damage of the compositor
\* equal to what it was minus the region, and last arms the frame timer of
\* the output, once, with the delay 1000000 / refresh (rounded down), which
\* is defined and not zero for every output that was created
C19_RepaintSequence ==
    [][IsRepaint(calls') =>
         /\ Len(calls') = Len(rectangles(calls'[1][3])) + 5
         /\ calls'[2] = <<"set_buffer", calls'[1][2],
                          outputs[calls'[1][2]].shadow_surface>>
         /\ calls'[3] = <<"repaint_output", calls'[1][2], 0>>
         /\ \A i \in 1..Len(rectangles(calls'[1][3])) :
              calls'[3 + i] = <<"composite", outputs[calls'[1][2]].hw_surface,
                                rectangles(calls'[1][3])[i]>>
         /\ calls'[Len(calls') - 1][1] = "region_subtract"
         /\ compositor'.damage = compositor.damage \ calls'[1][3]
         /\ Cardinality(Positions(calls', "timer_update")) = 1
         /\ outputs[calls'[1][2]].mode.refresh > 0
         /\ calls'[Len(calls')] =
              <<"timer_update", outputs[calls'[1][2]].finish_frame_timer,
                1000000 \div outputs[calls'[1][2]].mode.refresh>>
         /\ calls'[Len(calls')][3] > 0
         /\ timers'[outputs[calls'[1][2]].finish_frame_timer].armed]_vars

-----------------------------------------------------------------------------
(* The device mapper and the re-enable step, read from the log of calls *)

\* the descriptor of the last open() before position k of the log c
LastOpen(c, k) ==
    c[CHOOSE j \in Positions(c, "open") :
        j < k /\ \A i \in Positions(c, "open") : i < k => i <= j][2]

\* C17: fbdev_frame_buffer_map closes the descriptor it is given on every
\* outcome (mmap() fails, the hardware surface is not created, success),
\* and when the hardware surface is not created after a successful mmap()
\* it unmaps the region and clears output->fb before it returns the error
C17_MapClosesAndUnmaps ==
    \A k \in Positions(calls, "mmap") :
        /\ LastOpen(calls, k) \notin fds
        /\ IF calls[k][2] = MAP_FAILED
           THEN /\ k + 1 <= Len(calls)
                /\ calls[k + 1] = <<"close", LastOpen(calls, k), 0>>
           ELSE /\ k + 2 <= Len(calls)
                /\ calls[k + 1][1] = "create_bits"
                /\ IF calls[k + 1][2] # NULL
                   THEN calls[k + 2] = <<"close", LastOpen(calls, k), 0>>
                   ELSE /\ k + 3 <= Len(calls)
                        /\ calls[k + 2] = <<"munmap", calls[k][2], calls[k][3]>>
                        /\ calls[k + 3] = <<"close", LastOpen(calls, k), 0>>
                        /\ \A m \in mappings : m.addr # calls[k][2]
                        /\ \A o \in DOMAIN outputs : outputs[o].fb # calls[k][2]

\* a VT Enter in which the region was mapped and the hardware surface was
\* not created has returned, the output still there
C17_Witness ==
    /\ JustEntered
    /\ \E k \in Positions(calls, "mmap") :
         /\ calls[k][2] # MAP_FAILED
         /\ calls[k + 1] = <<"create_bits", NULL, 0>>
    /\ \E o \in Listed : outputs[o].fb = NULL /\ outputs[o].hw_surface = NULL

\* C18: every mapping of the device, made when an output is created or
\* when VT Enter maps it again, has the length the device reported as its
\* buffer length in the query of that same operation (which is what the
\* device reports when the operation returns)
C18_MapLengthAsQueried ==
    \A k \in Positions(calls, "mmap") :
        calls[k][2] # MAP_FAILED => calls[k][3] = device.fix.smem_len

\* C20: when VT Enter has found the mode of an output's device drifted,
\* the mode-set is attempted, and whatever its result the output is
\* destroyed and freed and the creation of an output is attempted, once;
\* the result of that creation is not read: fbdev_output_reenable returns 0
\* also when it failed, and the output list then holds no output for the
\* device
C20_DriftRecreateUnchecked ==
    \A k \in Positions(calls, "compare") :
        calls[k][3] = 1 =>
            /\ \E d \in Positions(calls, "destroy") :
                 /\ calls[d] = <<"destroy", calls[k][2], 0>>
                 /\ \E s \in Positions(calls, "set_screen_info") :
                      k < s /\ s < d
                 /\ \E c \in Positions(calls, "create") : d < c
            /\ Cardinality({ c \in Positions(calls, "create") : c > k }) = 1
            /\ calls[k][2] \notin DOMAIN outputs
            /\ Called(calls, <<"reenable_return", calls[k][2], 0>>)
            /\ Called(calls, <<"create", NULL, -1>>) =>
                 \A n \in Listed : outputs[n].device # DevicePath

\* an Enter has found the mode drifted, failed to restore it, destroyed the
\* output and failed to create another
C20_Witness ==
    /\ JustEntered
    /\ \E k \in Positions(calls, "compare") :
         /\ calls[k][3] = 1
         /\ Called(calls, <<"reenable_return", calls[k][2], 0>>)
    /\ Called(calls, <<"set_screen_info", -1, 0>>)
    /\ Called(calls, <<"create", NULL, -1>>)
    /\ compositor.output_list = <<>>

-----------------------------------------------------------------------------
(* The lifetime of an output: reads after free, descriptors, the frame timer *)

\* the positions in the log c of the reads of a field of an output
Reads(c) == Positions(c, "read_device") \cup Positions(c, "read_next")

\* C21: during a VT Enter no field of an output is read after that output
\* was destroyed (neither its device path for the creation of the
\* replacement nor its list link for the step to the next output), every
\* output in the list when the Enter arrives is re-enabled exactly once,
\* and an output created by the Enter is not re-enabled in it
C21_NoDestroyedOutputRead ==
    [][EnterStep =>
         /\ \A d \in Positions(calls', "destroy"), k \in Reads(calls') :
              calls'[k][2] = calls'[d][2] => k < d
         /\ \A o \in Listed :
              Cardinality({ k \in Positions(calls', "reenable") :
                              calls'[k][2] = o }) = 1
         /\ \A n \in Created : ~Called(calls', <<"reenable", n, 0>>)]_vars

\* C23: when the creation of an output has returned (at backend start) and
\* when a VT Enter has returned, on every path, every descriptor of the
\* device opened by that operation is closed
C23_NoHandleLeaked ==
    (phase \in {"running", "failed"} /\ (JustEntered \/ CalledName(calls, "create"))) =>
      \A k \in Positions(calls, "open") : calls[k][2] \notin fds

-----------------------------------------------------------------------------
(* The VT events, the repaints the host makes and the frame timer together *)

\* the host schedules a repaint of an output, which it does not do while the
\* compositor sleeps or is offscreen
HostSchedule ==
    /\ phase = "running"
    /\ compositor.state = WESTON_COMPOSITOR_ACTIVE
    /\ \E o \in Listed :
         /\ ~outputs[o].repaint_needed
         /\ outputs' = [outputs EXCEPT ![o].repaint_needed = TRUE]
    /\ calls' = <<>>
    /\ UNCHANGED <<phase, compositor, device, mappings, fds, images, buffers,
                   timers, vt, prev_vt, before_leave, nsteps, arg, res>>

\* the host makes the repaint that is pending for an output: it clears the
\* flag and calls output->repaint; the OFFSCREEN state prevents it
PendingRepaint ==
    /\ phase = "running"
    /\ compositor.state # WESTON_COMPOSITOR_OFFSCREEN
    /\ \E o \in Listed, damage \in SUBSET DamageRects, div0 \in {"trap", "zero"} :
         /\ outputs[o].repaint_needed
         /\ \E w \in {fbdev_output_repaint(
                          [World EXCEPT !.outputs[o].repaint_needed = FALSE],
                          o, damage, div0)} : Install(w)
    /\ UNCHANGED <<vt, prev_vt, before_leave, nsteps, arg, res>>

NextFrames ==
    \/ BackendInit
    \/ TtyEnter
    \/ TtyLeave
    \/ BackendDestroy
    \/ DeviceChange
    \/ HostActivity
    \/ HostSchedule
    \/ PendingRepaint
    \/ FinishFrame

SpecFrames == Init /\ [][NextFrames]_vars

\* C22: the frame timer never fires for an output that has been destroyed:
\* in every interleaving of repaints, VT Leave, VT Enter (with mode drift)
\* and backend shutdown, finish_frame_handler runs on a live output only
C22_TimerOnLiveOutput ==
    [][IsTimerFired(calls') =>
         timers[calls'[1][2]].data \in DOMAIN outputs]_vars

\* C24: a repaint never composites onto an absent hardware surface: whenever
\* the host makes a repaint of an output (after a VT Enter that damaged
\* everything, a failed remap included; never while SUSPENDED), that output
\* has a live hardware surface and a live mapping of the device
C24_RepaintOnLiveSurface ==
    [][IsRepaint(calls') =>
         /\ vt = "ACTIVE"
         /\ HwLive(calls'[1][2])
         /\ Mapped(calls'[1][2])
         /\ \A k \in Positions(calls', "composite") : calls'[k][2] # NULL]_vars

=============================================================================
